---- MODULE Spec2Model ----
(***************************************************************************)
(* LcdI2c: an HD44780 character LCD behind a TCA9534 I/O expander on I2C.  *)
(* The driver's fields, every public operation and the fmt::Write sink are *)
(* modelled from src/lib.rs.  Each operation is one action; the bus writes *)
(* it attempts and the Timer delays it awaits are recorded, in order, in   *)
(* `bus`, the transcript of the latest call.                               *)
(***************************************************************************)
EXTENDS Integers, Sequences, FiniteSets, TLC

\* ------------------------------------------------------------- bounds
\* Longest string passed to write_str and to the fmt::Write sink.
MaxStrLen == 2

\* The number of bus writes the transport fails in one run.
MaxFaults == 1

\* ------------------------------------------------------------- constants
TCA9534_REG_OUTPUT == 1
TCA9534_REG_POLARITY == 2
TCA9534_REG_CONFIG == 3

\* ------------------------------------------------------------- u8 arithmetic
Bit(x, i) == (x \div (2 ^ i)) % 2

\* a & b on u8, bit by bit
BitAnd(a, b) ==
    Bit(a, 0) * Bit(b, 0) + 2 * (Bit(a, 1) * Bit(b, 1))
    + 4 * (Bit(a, 2) * Bit(b, 2)) + 8 * (Bit(a, 3) * Bit(b, 3))
    + 16 * (Bit(a, 4) * Bit(b, 4)) + 32 * (Bit(a, 5) * Bit(b, 5))
    + 64 * (Bit(a, 6) * Bit(b, 6)) + 128 * (Bit(a, 7) * Bit(b, 7))

\* The same as a table over u8 x u8, computed once.
AndTable == [a \in 0..255 |-> [b \in 0..255 |-> BitAnd(a, b)]]

And8(a, b) == AndTable[a][b]

\* a | b on u8
Or8(a, b) == a + b - And8(a, b)

\* !a on u8
Not8(a) == 255 - a

\* a << n on u8 (bits shifted out are dropped)
Shl8(a, n) == (a * (2 ^ n)) % 256

\* ------------------------------------------------------------- inputs
\* Bytes of the strings written (ASCII 'H', 'I').
StrBytes == {72, 73}

Strs == UNION {[1..n -> StrBytes] : n \in 0..MaxStrLen}

\* Bytes given to write_byte.
DataBytes == {72, 165}

\* Columns and rows given to set_cursor.
Cols == {0, 5, 63, 191, 192, 255}

Rows == {0, 1, 2, 255}

\* Slots and glyphs given to create_char.
Slots == {0, 7, 9, 255}

Glyphs == {<<14, 17, 17, 31, 17, 17, 17, 0>>, <<0, 10, 31, 31, 14, 4, 0, 1>>}

\* The inputs used where the transport may fail: one of each; the string is
\* "HIHI..." at the longest length.
FaultStrs == {[i \in 1..MaxStrLen |-> IF i % 2 = 1 THEN 72 ELSE 73]}

FaultBytes == {165}

FaultCols == {5}

FaultRows == {1}

FaultSlots == {9}

FaultGlyphs == {<<14, 17, 17, 31, 17, 17, 17, 0>>}

\* ------------------------------------------------------------- state
VARIABLES
    output,          \* LcdI2c.output: [rs, rw, e, led, data]
    display_state,   \* LcdI2c.display_state
    entry_state,     \* LcdI2c.entry_state
    overflow_checks, \* the build: TRUE when u8 overflow panics
    bus,             \* transcript of the latest call: bus writes and delays
    call,            \* the latest call: [op, a, b]
    ret,             \* its outcome: "Ok", "Err", "FmtErr" or "panic"
    pre,             \* display_state and entry_state at the entry of the latest call
    hist,            \* how the latest call follows the one before it
    faults           \* the number of bus writes the transport has failed so far

vars == <<output, display_state, entry_state, overflow_checks, bus, call, ret,
          pre, hist, faults>>

\* OutputState::new
OutputState_new == [rs |-> FALSE, rw |-> FALSE, e |-> FALSE, led |-> FALSE, data |-> 0]

\* `if flag { buffer |= bit; }`
OrIf(flag, buffer, bit) == IF flag THEN Or8(buffer, bit) ELSE buffer

\* The control bits shared by both nibble encodings.
ControlBits(o) ==
    OrIf(o.led, OrIf(o.e, OrIf(o.rw, OrIf(o.rs, 0, 1), 2), 4), 8)

get_high_data(o) == Or8(ControlBits(o), And8(o.data, 240))

\* get_low_data without the shift: the low nibble lands on the control bits.
get_low_data_unshifted(o) == Or8(ControlBits(o), And8(o.data, 15))

get_low_data(o) == Or8(ControlBits(o), Shl8(And8(o.data, 15), 4))

\* ------------------------------------------------------------- execution
\* A call in progress: the driver's fields, the transcript so far, `budget`,
\* the number of bus writes the transport accepts before it fails one (-1: it
\* fails none),
\* and `stop`: "" while running, "Err" once a write has failed and `?` returns
\* the transport error, "FmtErr" once the sink has returned fmt::Error,
\* "panic" after a panic.
Enter(k) ==
    [output |-> output, display_state |-> display_state, entry_state |-> entry_state,
     bus |-> <<>>, budget |-> k, stop |-> ""]

Failed(m) == m.stop # ""

WriteEv(reg, val, ok) == [k |-> "w", reg |-> reg, val |-> val, ok |-> ok]

DelayEv(us) == [k |-> "d", reg |-> 0, val |-> us, ok |-> TRUE]

\* self.i2c.write(self.address, &[reg, val])
I2cWrite(m, reg, val) ==
    IF m.budget = 0
    THEN [m EXCEPT !.bus = Append(@, WriteEv(reg, val, FALSE)), !.stop = "Err",
                   !.budget = -1]
    ELSE [m EXCEPT !.bus = Append(@, WriteEv(reg, val, TRUE)),
                   !.budget = IF @ > 0 THEN @ - 1 ELSE @]

\* Timer::after_micros(us).await
Timer_after_micros(m, us) == [m EXCEPT !.bus = Append(@, DelayEv(us))]

\* Timer::after_millis(ms).await
Timer_after_millis(m, ms) == Timer_after_micros(m, 1000 * ms)

i2c_write(m, val) == I2cWrite(m, TCA9534_REG_OUTPUT, val)

\* self.output.e = e; self.i2c_write(self.output.get_high_data())
HighNibble(m, e) ==
    i2c_write([m EXCEPT !.output.e = e], get_high_data([m.output EXCEPT !.e = e]))

\* self.output.e = e; self.i2c_write(self.output.get_low_data())
LowNibble(m, e) ==
    i2c_write([m EXCEPT !.output.e = e], get_low_data([m.output EXCEPT !.e = e]))

\* In each body below the steps after a fallible one are local operators of
\* its result, named after the step they start with and defined last step
\* first; `IF Failed(r) THEN r ELSE ...` is the `?` of the source: the rest of
\* the body is not run.

\* lcd_write with the error of the low nibble's first write dropped
\* (`let _ = self.i2c_write(..)` for `self.i2c_write(..)?`).
lcd_write_drops_error(m, out, initialization) ==
    LET LowFall(r) == LowNibble(Timer_after_micros([r EXCEPT !.stop = ""], 1), FALSE)
        LowRise(r) == IF Failed(r) \/ initialization THEN r
                      ELSE LowFall(LowNibble(Timer_after_micros(r, 37), TRUE))
        HighFall(r) == IF Failed(r) THEN r
                       ELSE LowRise(HighNibble(Timer_after_micros(r, 1), FALSE))
    IN  HighFall(HighNibble([m EXCEPT !.output.data = out], TRUE))

\* lcd_write sending the low nibble right after the high one, without the
\* 37 us between the halves.
lcd_write_no_gap(m, out, initialization) ==
    LET LowFall(r) == IF Failed(r) THEN r
                      ELSE LowNibble(Timer_after_micros(r, 1), FALSE)
        LowRise(r) == IF Failed(r) \/ initialization THEN r
                      ELSE LowFall(LowNibble(r, TRUE))
        HighFall(r) == IF Failed(r) THEN r
                       ELSE LowRise(HighNibble(Timer_after_micros(r, 1), FALSE))
    IN  HighFall(HighNibble([m EXCEPT !.output.data = out], TRUE))

lcd_write(m, out, initialization) ==
    LET LowFall(r) == IF Failed(r) THEN r
                      ELSE LowNibble(Timer_after_micros(r, 1), FALSE)
        LowRise(r) == IF Failed(r) \/ initialization THEN r
                      ELSE LowFall(LowNibble(Timer_after_micros(r, 37), TRUE))
        HighFall(r) == IF Failed(r) THEN r
                       ELSE LowRise(HighNibble(Timer_after_micros(r, 1), FALSE))
    IN  HighFall(HighNibble([m EXCEPT !.output.data = out], TRUE))

\* self.output.rs = rs; self.output.rw = false;
Select(m, rs) == [m EXCEPT !.output.rs = rs, !.output.rw = FALSE]

\* self.lcd_write(..).await?; Timer::after_micros(us).await;
Settle(r, us) == IF Failed(r) THEN r ELSE Timer_after_micros(r, us)

\* The body shared by the commands that change no flag: RS and R/W low, the
\* command byte, then its settle delay.
Command(m, cmd, settle_us) == Settle(lcd_write(Select(m, FALSE), cmd, FALSE), settle_us)

\* clear with the short settle of the other commands.
clear_short_settle(m) == Command(m, 1, 37)

clear(m) == Command(m, 1, 2000)

home(m) == Command(m, 2, 2000)

\* The body shared by the display-control toggles: display_state becomes d,
\* then the whole field is sent with its opcode.
DisplayControl(m, d) == Command([m EXCEPT !.display_state = d], Or8(8, d), 37)

\* The body shared by the entry-mode toggles.
EntryMode(m, s) == Command([m EXCEPT !.entry_state = s], Or8(4, s), 37)

display(m) == DisplayControl(m, Or8(m.display_state, Shl8(1, 2)))

no_display(m) == DisplayControl(m, And8(m.display_state, Not8(Shl8(1, 2))))

\* cursor as a flip of the bit (`^=` for `|=`).
cursor_flips(m) ==
    DisplayControl(m, IF Bit(m.display_state, 1) = 1 THEN m.display_state - 2
                      ELSE m.display_state + 2)

cursor(m) == DisplayControl(m, Or8(m.display_state, Shl8(1, 1)))

\* no_cursor clearing the display bit (the mask of no_display).
no_cursor_wrong_mask(m) == DisplayControl(m, And8(m.display_state, Not8(Shl8(1, 2))))

no_cursor(m) == DisplayControl(m, And8(m.display_state, Not8(Shl8(1, 1))))

\* blink setting the cursor bit (the mask of cursor).
blink_sets_cursor(m) == DisplayControl(m, Or8(m.display_state, Shl8(1, 1)))

blink(m) == DisplayControl(m, Or8(m.display_state, 1))

no_blink(m) == DisplayControl(m, And8(m.display_state, Not8(1)))

left_to_right(m) == EntryMode(m, Or8(m.entry_state, Shl8(1, 1)))

right_to_left(m) == EntryMode(m, And8(m.entry_state, Not8(Shl8(1, 1))))

autoscroll(m) == EntryMode(m, Or8(m.entry_state, 1))

no_autoscroll(m) == EntryMode(m, And8(m.entry_state, Not8(1)))

scroll_display_left(m) == Command(m, 24, 37)

scroll_display_right(m) == Command(m, 28, 37)

\* backlight writing the frame before it records the new value.
backlight_stale(m) ==
    [i2c_write(m, Or8(0, Shl8(IF m.output.led THEN 1 ELSE 0, 3)))
        EXCEPT !.output.led = TRUE]

backlight(m) == i2c_write([m EXCEPT !.output.led = TRUE], Or8(0, Shl8(1, 3)))

no_backlight(m) == i2c_write([m EXCEPT !.output.led = FALSE], Or8(0, Shl8(0, 3)))

\* `if row == 0 { 0x00 } else { 0x40 } + col` on u8: past 255 the sum panics
\* in a build with overflow checks and wraps in one without.
set_cursor(m, col, row) ==
    LET sum == (IF row = 0 THEN 0 ELSE 64) + col
    IN  IF sum > 255 /\ overflow_checks THEN [Select(m, FALSE) EXCEPT !.stop = "panic"]
        ELSE Command(m, Or8(128, sum % 256), 37)

\* write_byte without `self.output.rs = true`: RS stays as the call before left it.
write_byte_keeps_rs(m, byte) ==
    Settle(lcd_write([m EXCEPT !.output.rw = FALSE], byte, FALSE), 41)

write_byte(m, byte) == Settle(lcd_write(Select(m, TRUE), byte, FALSE), 41)

\* for byte in s.bytes() { self.write_byte(byte).await?; }
RECURSIVE write_str(_, _)
write_str(m, s) ==
    IF s = <<>> \/ Failed(m) THEN m ELSE write_str(write_byte(m, Head(s)), Tail(s))

\* create_char without the final set_cursor(0, 0).
create_char_no_restore(m, location, charmap) ==
    write_str(Settle(lcd_write(Select(m, FALSE), Or8(64, Shl8(location % 8, 3)), FALSE),
                     37), charmap)

create_char(m, location, charmap) ==
    LET Restore(r) == IF Failed(r) THEN r ELSE set_cursor(r, 0, 0)
    IN  Restore(write_str(
            Settle(lcd_write(Select(m, FALSE), Or8(64, Shl8(location % 8, 3)), FALSE),
                   37), charmap))

\* initialize_lcd with the 8-bit nibble sent twice, not three times.
initialize_lcd_two_resets(m) ==
    LET EntrySet(r) == IF Failed(r) THEN r ELSE left_to_right(r)
        Erase(r) == IF Failed(r) THEN r ELSE EntrySet(clear(r))
        DisplayOn(r) == IF Failed(r) THEN r
                        ELSE Erase(display(Timer_after_micros(r, 37)))
        FunctionSet(r) == IF Failed(r) THEN r
                          ELSE DisplayOn(lcd_write(Timer_after_micros(r, 37), 40, FALSE))
        FourBit(r) == IF Failed(r) THEN r
                      ELSE FunctionSet(lcd_write(Timer_after_micros(r, 150), 32, TRUE))
        Reset2(r) == IF Failed(r) THEN r
                     ELSE FourBit(lcd_write(Timer_after_millis(r, 5), 48, TRUE))
    IN  Reset2(lcd_write(Timer_after_millis(Select(m, FALSE), 50), 48, TRUE))

\* initialize_lcd sending the 4-bit switch (0x20) as a full two-nibble transfer.
initialize_lcd_full_switch(m) ==
    LET EntrySet(r) == IF Failed(r) THEN r ELSE left_to_right(r)
        Erase(r) == IF Failed(r) THEN r ELSE EntrySet(clear(r))
        DisplayOn(r) == IF Failed(r) THEN r
                        ELSE Erase(display(Timer_after_micros(r, 37)))
        FunctionSet(r) == IF Failed(r) THEN r
                          ELSE DisplayOn(lcd_write(Timer_after_micros(r, 37), 40, FALSE))
        FourBit(r) == IF Failed(r) THEN r
                      ELSE FunctionSet(lcd_write(Timer_after_micros(r, 37), 32, FALSE))
        Reset3(r) == IF Failed(r) THEN r
                     ELSE FourBit(lcd_write(Timer_after_micros(r, 150), 48, TRUE))
        Reset2(r) == IF Failed(r) THEN r
                     ELSE Reset3(lcd_write(Timer_after_millis(r, 5), 48, TRUE))
    IN  Reset2(lcd_write(Timer_after_millis(Select(m, FALSE), 50), 48, TRUE))

initialize_lcd(m) ==
    LET EntrySet(r) == IF Failed(r) THEN r ELSE left_to_right(r)
        Erase(r) == IF Failed(r) THEN r ELSE EntrySet(clear(r))
        DisplayOn(r) == IF Failed(r) THEN r
                        ELSE Erase(display(Timer_after_micros(r, 37)))
        FunctionSet(r) == IF Failed(r) THEN r
                          ELSE DisplayOn(lcd_write(Timer_after_micros(r, 37), 40, FALSE))
        FourBit(r) == IF Failed(r) THEN r
                      ELSE FunctionSet(lcd_write(Timer_after_micros(r, 37), 32, TRUE))
        Reset3(r) == IF Failed(r) THEN r
                     ELSE FourBit(lcd_write(Timer_after_micros(r, 150), 48, TRUE))
        Reset2(r) == IF Failed(r) THEN r
                     ELSE Reset3(lcd_write(Timer_after_millis(r, 5), 48, TRUE))
    IN  Reset2(lcd_write(Timer_after_millis(Select(m, FALSE), 50), 48, TRUE))

\* begin writing the output register before the polarity register.
begin_output_first(m) ==
    LET Controller(r) == IF Failed(r) THEN r
                         ELSE initialize_lcd(Timer_after_millis(r, 10))
        Third(r) == IF Failed(r) THEN r
                    ELSE Controller(I2cWrite(Timer_after_millis(r, 10),
                                             TCA9534_REG_POLARITY, 0))
        Second(r) == IF Failed(r) THEN r
                     ELSE Third(I2cWrite(Timer_after_millis(r, 10),
                                         TCA9534_REG_OUTPUT, 0))
    IN  Second(I2cWrite(m, TCA9534_REG_CONFIG, 0))

begin(m) ==
    LET Controller(r) == IF Failed(r) THEN r
                         ELSE initialize_lcd(Timer_after_millis(r, 10))
        Third(r) == IF Failed(r) THEN r
                    ELSE Controller(I2cWrite(Timer_after_millis(r, 10),
                                             TCA9534_REG_OUTPUT, 0))
        Second(r) == IF Failed(r) THEN r
                     ELSE Third(I2cWrite(Timer_after_millis(r, 10),
                                         TCA9534_REG_POLARITY, 0))
    IN  Second(I2cWrite(m, TCA9534_REG_CONFIG, 0))

\* if self.i2c_write(..).is_err() { return Err(fmt::Error); }
SinkWrite(r) == IF Failed(r) THEN [r EXCEPT !.stop = "FmtErr"] ELSE r

\* The sink sending the low nibble before the high one.
SinkByte_low_first(m, byte) ==
    LET HighFall(r) == IF Failed(r) THEN r ELSE SinkWrite(HighNibble(r, FALSE))
        HighRise(r) == IF Failed(r) THEN r ELSE HighFall(SinkWrite(HighNibble(r, TRUE)))
        LowFall(r) == IF Failed(r) THEN r ELSE HighRise(SinkWrite(LowNibble(r, FALSE)))
    IN  LowFall(SinkWrite(LowNibble([Select(m, TRUE) EXCEPT !.output.data = byte],
                                    TRUE)))

\* One byte of the fmt::Write sink: no delay anywhere.
SinkByte(m, byte) ==
    LET LowFall(r) == IF Failed(r) THEN r ELSE SinkWrite(LowNibble(r, FALSE))
        LowRise(r) == IF Failed(r) THEN r ELSE LowFall(SinkWrite(LowNibble(r, TRUE)))
        HighFall(r) == IF Failed(r) THEN r ELSE LowRise(SinkWrite(HighNibble(r, FALSE)))
    IN  HighFall(SinkWrite(HighNibble([Select(m, TRUE) EXCEPT !.output.data = byte],
                                      TRUE)))

\* impl fmt::Write for LcdI2c: write_str
RECURSIVE fmt_write_str(_, _)
fmt_write_str(m, s) ==
    IF s = <<>> \/ Failed(m) THEN m ELSE fmt_write_str(SinkByte(m, Head(s)), Tail(s))

\* ------------------------------------------------------------- actions
Writes(m) == Cardinality({i \in 1..Len(m.bus) : m.bus[i].k = "w"})

\* The transport accepts the first k writes of a call and fails the next one;
\* k = the number of writes of the whole call, or -1: no failure.  It fails
\* at most MaxFaults writes in a run.
Budgets(n, faulty) == IF faulty /\ faults < MaxFaults THEN 0..n ELSE {-1}

Call(op, a, b) == [op |-> op, a |-> a, b |-> b]

Toggles ==
    {"display", "no_display", "cursor", "no_cursor", "blink", "no_blink",
     "left_to_right", "right_to_left", "autoscroll", "no_autoscroll"}

Inverse(op) ==
    CASE op = "display" -> "no_display"
      [] op = "no_display" -> "display"
      [] op = "cursor" -> "no_cursor"
      [] op = "no_cursor" -> "cursor"
      [] op = "blink" -> "no_blink"
      [] op = "no_blink" -> "blink"
      [] op = "left_to_right" -> "right_to_left"
      [] op = "right_to_left" -> "left_to_right"
      [] op = "autoscroll" -> "no_autoscroll"
      [] op = "no_autoscroll" -> "autoscroll"
      [] OTHER -> ""

\* How call c follows the latest call: "first" on a fresh driver; for a
\* toggle, "same" right after the same toggle returned Ok and "inverse" right
\* after its opposite returned Ok; "other" in every other case.
Follows(c) ==
    IF call.op = "new" THEN "first"
    ELSE IF c.op \in Toggles /\ ret = "Ok" /\ call.op = c.op THEN "same"
    ELSE IF c.op \in Toggles /\ ret = "Ok" /\ call.op = Inverse(c.op) THEN "inverse"
    ELSE "other"

\* The caller sees the call return: the driver keeps the fields the call
\* left, and the transcript of the call replaces the previous one.
Return(c, m) ==
    /\ output' = m.output
    /\ display_state' = m.display_state
    /\ entry_state' = m.entry_state
    /\ bus' = m.bus
    /\ call' = c
    /\ ret' = IF m.stop = "" THEN "Ok" ELSE m.stop
    /\ pre' = [display_state |-> display_state, entry_state |-> entry_state]
    /\ hist' = Follows(c)
    /\ faults' = IF m.stop \in {"Err", "FmtErr"} THEN faults + 1 ELSE faults
    /\ UNCHANGED overflow_checks

\* A panic ends the program: nothing is called after it.
Running == ret # "panic"

\* LcdI2c::new
Init ==
    /\ output = OutputState_new
    /\ display_state = 0
    /\ entry_state = 0
    /\ overflow_checks \in BOOLEAN
    /\ bus = <<>>
    /\ call = Call("new", 0, 0)
    /\ ret = "Ok"
    /\ pre = [display_state |-> 0, entry_state |-> 0]
    /\ hist = "none"
    /\ faults = 0

Begin(faulty) ==
    /\ Running
    /\ \E k \in Budgets(Writes(begin(Enter(-1))), faulty) :
          Return(Call("begin", 0, 0), begin(Enter(k)))

Clear(faulty) ==
    /\ Running
    /\ \E k \in Budgets(Writes(clear(Enter(-1))), faulty) :
          Return(Call("clear", 0, 0), clear(Enter(k)))

Home(faulty) ==
    /\ Running
    /\ \E k \in Budgets(Writes(home(Enter(-1))), faulty) :
          Return(Call("home", 0, 0), home(Enter(k)))

Display(faulty) ==
    /\ Running
    /\ \E k \in Budgets(Writes(display(Enter(-1))), faulty) :
          Return(Call("display", 0, 0), display(Enter(k)))

NoDisplay(faulty) ==
    /\ Running
    /\ \E k \in Budgets(Writes(no_display(Enter(-1))), faulty) :
          Return(Call("no_display", 0, 0), no_display(Enter(k)))

Cursor(faulty) ==
    /\ Running
    /\ \E k \in Budgets(Writes(cursor(Enter(-1))), faulty) :
          Return(Call("cursor", 0, 0), cursor(Enter(k)))

NoCursor(faulty) ==
    /\ Running
    /\ \E k \in Budgets(Writes(no_cursor(Enter(-1))), faulty) :
          Return(Call("no_cursor", 0, 0), no_cursor(Enter(k)))

Blink(faulty) ==
    /\ Running
    /\ \E k \in Budgets(Writes(blink(Enter(-1))), faulty) :
          Return(Call("blink", 0, 0), blink(Enter(k)))

NoBlink(faulty) ==
    /\ Running
    /\ \E k \in Budgets(Writes(no_blink(Enter(-1))), faulty) :
          Return(Call("no_blink", 0, 0), no_blink(Enter(k)))

LeftToRight(faulty) ==
    /\ Running
    /\ \E k \in Budgets(Writes(left_to_right(Enter(-1))), faulty) :
          Return(Call("left_to_right", 0, 0), left_to_right(Enter(k)))

RightToLeft(faulty) ==
    /\ Running
    /\ \E k \in Budgets(Writes(right_to_left(Enter(-1))), faulty) :
          Return(Call("right_to_left", 0, 0), right_to_left(Enter(k)))

Autoscroll(faulty) ==
    /\ Running
    /\ \E k \in Budgets(Writes(autoscroll(Enter(-1))), faulty) :
          Return(Call("autoscroll", 0, 0), autoscroll(Enter(k)))

NoAutoscroll(faulty) ==
    /\ Running
    /\ \E k \in Budgets(Writes(no_autoscroll(Enter(-1))), faulty) :
          Return(Call("no_autoscroll", 0, 0), no_autoscroll(Enter(k)))

ScrollDisplayLeft(faulty) ==
    /\ Running
    /\ \E k \in Budgets(Writes(scroll_display_left(Enter(-1))), faulty) :
          Return(Call("scroll_display_left", 0, 0), scroll_display_left(Enter(k)))

ScrollDisplayRight(faulty) ==
    /\ Running
    /\ \E k \in Budgets(Writes(scroll_display_right(Enter(-1))), faulty) :
          Return(Call("scroll_display_right", 0, 0), scroll_display_right(Enter(k)))

Backlight(faulty) ==
    /\ Running
    /\ \E k \in Budgets(Writes(backlight(Enter(-1))), faulty) :
          Return(Call("backlight", 0, 0), backlight(Enter(k)))

NoBacklight(faulty) ==
    /\ Running
    /\ \E k \in Budgets(Writes(no_backlight(Enter(-1))), faulty) :
          Return(Call("no_backlight", 0, 0), no_backlight(Enter(k)))

SetCursor(faulty, cols, rows) ==
    /\ Running
    /\ \E col \in cols, row \in rows :
          \E k \in Budgets(Writes(set_cursor(Enter(-1), col, row)), faulty) :
             Return(Call("set_cursor", col, row), set_cursor(Enter(k), col, row))

CreateChar(faulty, slots, glyphs) ==
    /\ Running
    /\ \E location \in slots, charmap \in glyphs :
          \E k \in Budgets(Writes(create_char(Enter(-1), location, charmap)), faulty) :
             Return(Call("create_char", location, charmap),
                    create_char(Enter(k), location, charmap))

WriteByte(faulty, bytes) ==
    /\ Running
    /\ \E byte \in bytes :
          \E k \in Budgets(Writes(write_byte(Enter(-1), byte)), faulty) :
             Return(Call("write_byte", byte, 0), write_byte(Enter(k), byte))

WriteStr(faulty, strs) ==
    /\ Running
    /\ \E s \in strs :
          \E k \in Budgets(Writes(write_str(Enter(-1), s)), faulty) :
             Return(Call("write_str", s, 0), write_str(Enter(k), s))

FmtWriteStr(faulty, strs) ==
    /\ Running
    /\ \E s \in strs :
          \E k \in Budgets(Writes(fmt_write_str(Enter(-1), s)), faulty) :
             Return(Call("fmt_write_str", s, 0), fmt_write_str(Enter(k), s))

\* The driver on a transport that never fails.
Next ==
    \/ Begin(FALSE)
    \/ Clear(FALSE)
    \/ Home(FALSE)
    \/ Display(FALSE)
    \/ NoDisplay(FALSE)
    \/ Cursor(FALSE)
    \/ NoCursor(FALSE)
    \/ Blink(FALSE)
    \/ NoBlink(FALSE)
    \/ LeftToRight(FALSE)
    \/ RightToLeft(FALSE)
    \/ Autoscroll(FALSE)
    \/ NoAutoscroll(FALSE)
    \/ ScrollDisplayLeft(FALSE)
    \/ ScrollDisplayRight(FALSE)
    \/ Backlight(FALSE)
    \/ NoBacklight(FALSE)
    \/ SetCursor(FALSE, Cols, Rows)
    \/ CreateChar(FALSE, Slots, Glyphs)
    \/ WriteByte(FALSE, DataBytes)
    \/ WriteStr(FALSE, Strs)
    \/ FmtWriteStr(FALSE, Strs)

Spec == Init /\ [][Next]_vars

\* The driver on a transport that may fail any write.  None of the set_cursor
\* inputs used here overflows, so the build makes no difference and one is
\* taken.
FaultInit == Init /\ overflow_checks = FALSE

FaultNext ==
    \/ Begin(TRUE)
    \/ Clear(TRUE)
    \/ Home(TRUE)
    \/ Display(TRUE)
    \/ NoDisplay(TRUE)
    \/ Cursor(TRUE)
    \/ NoCursor(TRUE)
    \/ Blink(TRUE)
    \/ NoBlink(TRUE)
    \/ LeftToRight(TRUE)
    \/ RightToLeft(TRUE)
    \/ Autoscroll(TRUE)
    \/ NoAutoscroll(TRUE)
    \/ ScrollDisplayLeft(TRUE)
    \/ ScrollDisplayRight(TRUE)
    \/ Backlight(TRUE)
    \/ NoBacklight(TRUE)
    \/ SetCursor(TRUE, FaultCols, FaultRows)
    \/ CreateChar(TRUE, FaultSlots, FaultGlyphs)
    \/ WriteByte(TRUE, FaultBytes)
    \/ WriteStr(TRUE, FaultStrs)
    \/ FmtWriteStr(TRUE, FaultStrs)

FaultSpec == FaultInit /\ [][FaultNext]_vars

\* ------------------------------------------------------------- the bit map
\* OutputState as a value of its own: every combination of its five fields.
PinStates == [rs : BOOLEAN, rw : BOOLEAN, e : BOOLEAN, led : BOOLEAN, data : 0..255]

\* An OutputState with any field values, nothing rendered yet.
MapInit ==
    /\ output \in PinStates
    /\ display_state = 0
    /\ entry_state = 0
    /\ overflow_checks = FALSE
    /\ bus = <<>>
    /\ call = Call("new", 0, 0)
    /\ ret = "Ok"
    /\ pre = [display_state |-> 0, entry_state |-> 0]
    /\ hist = "none"
    /\ faults = 0

\* self.output.get_high_data(): the frame is recorded as the first event.
GetHighData ==
    /\ call.op = "new"
    /\ bus' = <<WriteEv(TCA9534_REG_OUTPUT, get_high_data(output), TRUE)>>
    /\ call' = Call("get_high_data", 0, 0)
    /\ UNCHANGED <<output, display_state, entry_state, overflow_checks, ret, pre,
                   hist, faults>>

\* self.output.get_low_data(): the frame is recorded as the second event.
GetLowData ==
    /\ call.op = "get_high_data"
    /\ bus' = Append(bus, WriteEv(TCA9534_REG_OUTPUT, get_low_data(output), TRUE))
    /\ call' = Call("get_low_data", 0, 0)
    /\ UNCHANGED <<output, display_state, entry_state, overflow_checks, ret, pre,
                   hist, faults>>

MapNext == GetHighData \/ GetLowData

MapSpec == MapInit /\ [][MapNext]_vars

\* ------------------------------------------------------------- transcripts
IsWrite(e) == e.k = "w"

IsDelay(e) == e.k = "d"

\* The bus writes of a transcript, in order.
WritesOf(b) == SelectSeq(b, IsWrite)

\* An Enable strobe: an accepted output-register write with the Enable bit set.
IsStrobe(e) == IsWrite(e) /\ e.ok /\ e.reg = TCA9534_REG_OUTPUT /\ Bit(e.val, 2) = 1

Strobes(b) == SelectSeq(b, IsStrobe)

\* What the controller latches from a transcript: the first `halves` strobes
\* are single 8-bit-mode transfers (the nibble on DB7..DB4), the others pair up
\* into 4-bit-mode transfers, high nibble first.  Each transfer is [rs, byte].
Transfers(b, halves) ==
    LET s == Strobes(b)
        h == IF halves < Len(s) THEN halves ELSE Len(s)
    IN  [i \in 1..(h + ((Len(s) - h) \div 2)) |->
            IF i <= h
            THEN [rs |-> Bit(s[i].val, 0), byte |-> 16 * (s[i].val \div 16)]
            ELSE [rs |-> Bit(s[h + 2 * (i - h) - 1].val, 0),
                  byte |-> 16 * (s[h + 2 * (i - h) - 1].val \div 16)
                           + (s[h + 2 * (i - h)].val \div 16)]]

Cmd(byte) == [rs |-> 0, byte |-> byte]

Data(byte) == [rs |-> 1, byte |-> byte]

\* The position in b of its n-th bus write, looking from position i on (0 when
\* there is none).
RECURSIVE WriteAt(_, _, _)
WriteAt(b, n, i) ==
    IF i > Len(b) THEN 0
    ELSE IF IsWrite(b[i])
         THEN (IF n = 1 THEN i ELSE WriteAt(b, n - 1, i + 1))
         ELSE WriteAt(b, n, i + 1)

\* The microseconds awaited from position i on, up to the next bus write.
RECURSIVE DelayFrom(_, _)
DelayFrom(b, i) ==
    IF i > Len(b) \/ IsWrite(b[i]) THEN 0 ELSE b[i].val + DelayFrom(b, i + 1)

\* The microseconds awaited right after the n-th bus write of b.
DelayAfterWrite(b, n) == DelayFrom(b, WriteAt(b, n, 1) + 1)

\* ------------------------------------------------------------- claims
\* C1: begin() on a freshly constructed driver, with no bus failure, sends the
\* controller 0x30, 0x30, 0x30, 0x20, 0x28, 0x0C, 0x01, 0x06 in this order and
\* nothing else, RS low throughout, and the settle delays after the three
\* 0x30 are 5 ms > 150 us > 37 us.
C1_BeginSequence ==
    (call.op = "begin" /\ hist = "first" /\ ret = "Ok") =>
        /\ Transfers(bus, 4) = <<Cmd(48), Cmd(48), Cmd(48), Cmd(32), Cmd(40), Cmd(12),
                                 Cmd(1), Cmd(6)>>
        /\ Len(Strobes(bus)) = 12
        /\ DelayAfterWrite(bus, 5) = 5000
        /\ DelayAfterWrite(bus, 7) = 150
        /\ DelayAfterWrite(bus, 9) = 37
        /\ DelayAfterWrite(bus, 5) > DelayAfterWrite(bus, 7)
        /\ DelayAfterWrite(bus, 7) > DelayAfterWrite(bus, 9)

C1_Witness == call.op = "begin" /\ hist = "first" /\ ret = "Ok" /\ Len(bus) > 0

\* C2: a begin() that succeeds makes exactly three bus writes before the first
\* Enable strobe, and they are config (0x03) := 0x00, polarity (0x02) := 0x00,
\* output (0x01) := 0x00 in this order; every later write is to the output
\* register.
C2_ExpanderBringUp ==
    (call.op = "begin" /\ ret = "Ok") =>
        /\ Len(WritesOf(bus)) > 3
        /\ WritesOf(bus)[1] = WriteEv(TCA9534_REG_CONFIG, 0, TRUE)
        /\ WritesOf(bus)[2] = WriteEv(TCA9534_REG_POLARITY, 0, TRUE)
        /\ WritesOf(bus)[3] = WriteEv(TCA9534_REG_OUTPUT, 0, TRUE)
        /\ IsStrobe(WritesOf(bus)[4])
        /\ \A i \in 4..Len(WritesOf(bus)) : WritesOf(bus)[i].reg = TCA9534_REG_OUTPUT

C2_Witness ==
    /\ call.op = "begin" /\ ret = "Ok" /\ hist = "other"
    /\ Len(WritesOf(bus)) = 27

\* C3: in every fallible public operation a failed bus write is the last thing
\* the call does (no retry, no further write, no delay), and the call returns
\* the transport error exactly when a write failed.
C3_FirstFailureReturns ==
    (call.op \notin {"new", "fmt_write_str"}) =>
        /\ \A i \in 1..Len(bus) : (IsWrite(bus[i]) /\ ~bus[i].ok) => i = Len(bus)
        /\ (ret = "Err") <=> (Len(bus) > 0 /\ IsWrite(bus[Len(bus)]) /\ ~bus[Len(bus)].ok)
        /\ ret \in {"Ok", "Err"}

C3_Witness ==
    /\ call.op = "create_char" /\ ret = "Err"
    /\ Len(WritesOf(bus)) = 23
    /\ ~bus[Len(bus)].ok

\* C4 (as claimed): after every successful begin() the flags are the fixed
\* defaults, display_state = 0x04 and entry_state = 0x02, and the commands
\* begin sent are 0x0C and 0x06.
C4_BeginResetsFlags ==
    (call.op = "begin" /\ ret = "Ok") =>
        /\ display_state = 4
        /\ entry_state = 2
        /\ Transfers(bus, 4)[6] = Cmd(12)
        /\ Transfers(bus, 4)[8] = Cmd(6)

\* C5: a successful clear() or home() makes four bus writes and then awaits at
\* least 2 ms as the very next thing, with nothing after it; the clear() inside
\* a successful begin() is followed by the same delay before begin's next write.
C5_LongSettle ==
    /\ (call.op \in {"clear", "home"} /\ ret = "Ok") =>
          /\ Len(WritesOf(bus)) = 4
          /\ WriteAt(bus, 4, 1) = Len(bus) - 1
          /\ IsDelay(bus[Len(bus)])
          /\ bus[Len(bus)].val >= 2000
    /\ (call.op = "begin" /\ ret = "Ok") =>
          /\ Transfers(bus, 4)[7] = Cmd(1)
          /\ IsDelay(bus[WriteAt(bus, 23, 1) + 1])
          /\ bus[WriteAt(bus, 23, 1) + 1].val >= 2000

C5_Witness == call.op \in {"clear", "home"} /\ ret = "Ok" /\ hist = "other"

\* The row offset the claim gives: 0x00 for row 0, 0x40 for row 1, and the
\* offset of row 1 for every row past the last.
ClaimedOffset(row) == IF row = 0 THEN 0 ELSE 64

\* 0x80 | x on the integers.
OrBit7(x) == IF Bit(x, 7) = 1 THEN x ELSE x + 128

\* C6 (as claimed): set_cursor(col, row) does not fail and issues the single
\* command 0x80 | (offset(row) + col), rows past the last taking row 1's offset.
C6_SetCursorCommand ==
    (call.op = "set_cursor") =>
        /\ ret = "Ok"
        /\ Transfers(bus, 0) = <<Cmd(OrBit7(ClaimedOffset(call.b) + call.a))>>

\* C7 (as claimed): set_cursor never panics and always reaches its bus writes,
\* for every col and row.
C7_SetCursorNeverPanics ==
    (call.op = "set_cursor") => (ret # "panic" /\ Len(WritesOf(bus)) > 0)

\* C8: a successful create_char(slot, glyph) issues the command
\* 0x40 | ((slot mod 8) << 3), then the 8 glyph bytes as data in glyph order,
\* then the command 0x80, and nothing else.
C8_CreateChar ==
    (call.op = "create_char" /\ ret = "Ok") =>
        Transfers(bus, 0) =
            <<Cmd(64 + 8 * (call.a % 8))>>
            \o [i \in 1..8 |-> Data(call.b[i])]
            \o <<Cmd(128)>>

C8_Witness ==
    /\ call.op = "create_char" /\ ret = "Ok" /\ call.a = 255
    /\ Len(Transfers(bus, 0)) = 10

\* C9: a toggle repeated right after itself, both calls succeeding, issues the
\* same single command byte again and leaves display_state and entry_state as
\* the first call left them; for cursor() both commands carry bit 1.
C9_ToggleIdempotent ==
    [][(call.op \in Toggles /\ ret = "Ok" /\ call'.op = call.op /\ ret' = "Ok") =>
          /\ Len(Transfers(bus', 0)) = 1
          /\ Transfers(bus', 0) = Transfers(bus, 0)
          /\ display_state' = display_state
          /\ entry_state' = entry_state
          /\ (call.op = "cursor") =>
                /\ Bit(Transfers(bus, 0)[1].byte, 1) = 1
                /\ Bit(Transfers(bus', 0)[1].byte, 1) = 1]_vars

C9_Witness ==
    /\ call.op = "cursor" /\ hist = "same" /\ ret = "Ok"
    /\ Transfers(bus, 0) = <<Cmd(8 + display_state)>>

\* C10 (as claimed): cursor() then no_cursor(), both succeeding, leaves
\* display_state exactly as it was before cursor().
C10_CursorNoCursorRestores ==
    [][(call.op = "cursor" /\ ret = "Ok" /\ call'.op = "no_cursor" /\ ret' = "Ok") =>
          display_state' = pre.display_state]_vars

\* C10 (amended): cursor() then no_cursor(), both succeeding, leaves
\* display_state as it was before cursor() with the cursor bit (bit 1) cleared:
\* exactly the earlier value when the bit was clear then.
C10_CursorNoCursorClears ==
    [][(call.op = "cursor" /\ ret = "Ok" /\ call'.op = "no_cursor" /\ ret' = "Ok") =>
          /\ display_state' = pre.display_state - 2 * Bit(pre.display_state, 1)
          /\ (Bit(pre.display_state, 1) = 0) => display_state' = pre.display_state]_vars

C10_Witness ==
    /\ call.op = "no_cursor" /\ hist = "inverse" /\ ret = "Ok"
    /\ display_state = pre.display_state - 2

\* A write to the expander's output register, accepted or not.
IsOutputWrite(e) == IsWrite(e) /\ e.reg = TCA9534_REG_OUTPUT

\* The output-register writes of a transcript, in order.
OutputWrites(b) == SelectSeq(b, IsOutputWrite)

\* C11 (as claimed): the backlight persists.  output.led is TRUE exactly when
\* the latest of the backlight()/no_backlight() calls was backlight(); every
\* output-register write of any other operation, the bring-up write of a
\* re-run begin() included, carries that value in bit 3.
C11_BacklightPersists ==
    (call.op \notin {"new", "backlight", "no_backlight"}) =>
        \A i \in 1..Len(bus) :
            IsOutputWrite(bus[i]) => Bit(bus[i].val, 3) = (IF output.led THEN 1 ELSE 0)

\* The operations whose frames carry data bytes, and those whose frames carry
\* controller commands.
DataOps == {"write_byte", "write_str", "fmt_write_str"}

CommandOps ==
    Toggles \cup {"begin", "clear", "home", "scroll_display_left",
                  "scroll_display_right", "set_cursor"}

\* The RS bit the frames of the latest call must carry: frame i of a
\* create_char belongs to the address command (frames 1..4), to a glyph byte
\* (5..36) or to the closing set_cursor (37..40).
ExpectedRS(i) ==
    IF call.op \in DataOps THEN 1
    ELSE IF call.op = "create_char" /\ i \in 5..36 THEN 1
    ELSE 0

\* C12: every output-register frame of a data byte has RS (bit 0) set, every
\* frame of a controller command has RS clear, and R/W (bit 1) is clear in
\* every frame the driver writes, after any sequence of operations.
C12_RegisterSelect ==
    \A i \in 1..Len(OutputWrites(bus)) :
        /\ Bit(OutputWrites(bus)[i].val, 1) = 0
        /\ (call.op \in DataOps \cup CommandOps \cup {"create_char"}) =>
              Bit(OutputWrites(bus)[i].val, 0) = ExpectedRS(i)

C12_Witness ==
    /\ call.op = "create_char" /\ ret = "Ok" /\ output.led
    /\ Len(OutputWrites(bus)) = 40
    /\ Bit(OutputWrites(bus)[36].val, 0) = 1
    /\ Bit(OutputWrites(bus)[37].val, 0) = 0

\* C13 (as claimed): the text-stream sink swallows transport errors: a sink
\* call during which a bus write fails still does not return an error.
C13_SinkSwallowsErrors ==
    (call.op = "fmt_write_str") => ret = "Ok"

\* C14: backlight() and no_backlight() issue no controller command: the call
\* is exactly one output-register write, with Enable (bit 2) clear and bit 3
\* equal to the new backlight value, no delay, and display_state and
\* entry_state as before the call.
C14_BacklightImmediate ==
    (call.op \in {"backlight", "no_backlight"}) =>
        /\ Len(bus) = 1
        /\ IsOutputWrite(bus[1])
        /\ Bit(bus[1].val, 2) = 0
        /\ Bit(bus[1].val, 3) = (IF call.op = "backlight" THEN 1 ELSE 0)
        /\ output.led = (call.op = "backlight")
        /\ Strobes(bus) = <<>>
        /\ display_state = pre.display_state
        /\ entry_state = pre.entry_state

C14_Witness ==
    /\ call.op = "backlight" /\ ret = "Ok" /\ hist = "other"
    /\ bus = <<WriteEv(TCA9534_REG_OUTPUT, 8, TRUE)>>
    /\ output.rs /\ display_state = 6

DisplayToggles == {"display", "no_display", "cursor", "no_cursor", "blink", "no_blink"}

\* The command and data bytes the latest call sends after initialization, in
\* order, read off its arguments and the flags it leaves.
SentBytes ==
    CASE call.op = "clear" -> <<1>>
      [] call.op = "home" -> <<2>>
      [] call.op = "scroll_display_left" -> <<24>>
      [] call.op = "scroll_display_right" -> <<28>>
      [] call.op \in DisplayToggles -> <<8 + display_state>>
      [] call.op \in Toggles \ DisplayToggles -> <<4 + entry_state>>
      [] call.op = "set_cursor" ->
            <<128 + (((IF call.b = 0 THEN 0 ELSE 64) + call.a) % 128)>>
      [] call.op = "create_char" -> <<64 + 8 * (call.a % 8)>> \o call.b \o <<128>>
      [] call.op = "write_byte" -> <<call.a>>
      [] call.op \in {"write_str", "fmt_write_str"} -> call.a
      [] OTHER -> <<>>

\* Events 8j+1 .. 8j+8 of transcript b are the four-write cycle of byte v: the
\* high nibble with Enable set, a delay, the same frame with Enable clear, a
\* delay, the low nibble with Enable set, a delay, the same frame with Enable
\* clear, and the settle delay.
IsCycle(b, j, v) ==
    /\ IsOutputWrite(b[8 * j + 1]) /\ IsOutputWrite(b[8 * j + 3])
    /\ IsOutputWrite(b[8 * j + 5]) /\ IsOutputWrite(b[8 * j + 7])
    /\ Bit(b[8 * j + 1].val, 2) = 1
    /\ b[8 * j + 1].val \div 16 = v \div 16
    /\ b[8 * j + 3].val = b[8 * j + 1].val - 4
    /\ Bit(b[8 * j + 5].val, 2) = 1
    /\ b[8 * j + 5].val \div 16 = v % 16
    /\ b[8 * j + 5].val % 16 = b[8 * j + 1].val % 16
    /\ b[8 * j + 7].val = b[8 * j + 5].val - 4
    /\ \A d \in {2, 4, 6, 8} : IsDelay(b[8 * j + d]) /\ b[8 * j + d].val > 0

\* The latest call, when it is one of ops and succeeded, is one four-write
\* cycle with its delays per byte sent, and nothing else.
FourWriteCycles(ops) ==
    (call.op \in ops /\ ret = "Ok") =>
        /\ Len(WritesOf(bus)) = 4 * Len(SentBytes)
        /\ Len(bus) = 8 * Len(SentBytes)
        /\ \A j \in 0..(Len(SentBytes) - 1) : IsCycle(bus, j, SentBytes[j + 1])

\* The operations that send their bytes through lcd_write after initialization.
LcdWriteOps ==
    (CommandOps \ {"begin"}) \cup {"create_char", "write_byte", "write_str"}

\* C15 (as claimed): every command or data byte sent after initialization,
\* with no bus failure, is four output-register writes (high nibble Enable
\* set, Enable clear, low nibble Enable set, Enable clear) with a delay after
\* each of them; the bytes of the text-stream sink are data bytes too.
C15_FourWriteCycle == FourWriteCycles(LcdWriteOps \cup {"fmt_write_str"})

\* C15 (amended): the same for every byte sent by an operation other than the
\* text-stream sink.
C15_FourWriteCycleLcdWrite == FourWriteCycles(LcdWriteOps)

C15_Witness ==
    /\ call.op = "write_str" /\ ret = "Ok" /\ Len(call.a) = MaxStrLen
    /\ Len(bus) = 8 * MaxStrLen
    /\ output.led /\ hist = "other"

\* Frames i and i+1 of w are the half-cycle of nibble n: n on bits 7..4 with
\* Enable set, then the same frame with Enable clear.
IsHalfCycle(w, i, n) ==
    /\ Bit(w[i].val, 2) = 1
    /\ w[i].val \div 16 = n
    /\ w[i + 1].val = w[i].val - 4

\* C16: in a successful begin() each of the first four controller transfers
\* (0x30, 0x30, 0x30, 0x20) is exactly two output-register writes, the high
\* nibble with Enable set and then clear, with no low-nibble frame, and each
\* transfer from the function set on (0x28, display control, clear, entry mode)
\* is the full four writes, high half then low half.
C16_ColdBootHalfCycles ==
    (call.op = "begin" /\ ret = "Ok") =>
        /\ Len(OutputWrites(bus)) = 1 + 4 * 2 + 4 * 4
        /\ OutputWrites(bus)[1].val = 0
        /\ IsHalfCycle(OutputWrites(bus), 2, 3)
        /\ IsHalfCycle(OutputWrites(bus), 4, 3)
        /\ IsHalfCycle(OutputWrites(bus), 6, 3)
        /\ IsHalfCycle(OutputWrites(bus), 8, 2)
        /\ IsHalfCycle(OutputWrites(bus), 10, 2) /\ IsHalfCycle(OutputWrites(bus), 12, 8)
        /\ IsHalfCycle(OutputWrites(bus), 14, 0)
        /\ IsHalfCycle(OutputWrites(bus), 16, 8 + display_state)
        /\ IsHalfCycle(OutputWrites(bus), 18, 0) /\ IsHalfCycle(OutputWrites(bus), 20, 1)
        /\ IsHalfCycle(OutputWrites(bus), 22, 0)
        /\ IsHalfCycle(OutputWrites(bus), 24, 4 + entry_state)

C16_Witness ==
    /\ call.op = "begin" /\ ret = "Ok" /\ output.led /\ display_state = 7
    /\ Len(Strobes(bus)) = 12

\* The index of the one bit a toggle owns in its field.
ToggleBit(op) ==
    CASE op \in {"display", "no_display"} -> 2
      [] op \in {"cursor", "no_cursor", "left_to_right", "right_to_left"} -> 1
      [] OTHER -> 0

\* The toggles that set their bit; the others clear it.
SetToggles == {"display", "cursor", "blink", "left_to_right", "autoscroll"}

\* Field x with bit i set, or cleared, and every other bit as it is.
WithBit(x, i, set) ==
    IF set THEN x + (2 ^ i) * (1 - Bit(x, i)) ELSE x - (2 ^ i) * Bit(x, i)

\* C17: a toggle sets or clears exactly its own bit of its own field, leaves
\* the other field as it was, and issues exactly one command, the opcode
\* prefix (0x08 display control, 0x04 entry mode) OR'd with the whole updated
\* field; clear, home, the scrolls, set_cursor, create_char, the writes and
\* the backlight calls leave both fields as they were.
C17_ToggleFrame ==
    /\ (call.op \in DisplayToggles /\ ret = "Ok") =>
          /\ display_state = WithBit(pre.display_state, ToggleBit(call.op),
                                     call.op \in SetToggles)
          /\ entry_state = pre.entry_state
          /\ display_state \in 0..7
          /\ Transfers(bus, 0) = <<Cmd(8 + display_state)>>
    /\ (call.op \in Toggles \ DisplayToggles /\ ret = "Ok") =>
          /\ entry_state = WithBit(pre.entry_state, ToggleBit(call.op),
                                   call.op \in SetToggles)
          /\ display_state = pre.display_state
          /\ entry_state \in 0..3
          /\ Transfers(bus, 0) = <<Cmd(4 + entry_state)>>
    /\ (call.op \notin Toggles \cup {"new", "begin"}) =>
          /\ display_state = pre.display_state
          /\ entry_state = pre.entry_state

C17_Witness ==
    /\ call.op = "no_blink" /\ ret = "Ok"
    /\ pre.display_state = 7 /\ display_state = 6 /\ entry_state = 3
    /\ Transfers(bus, 0) = <<Cmd(14)>>

\* An output-register write the transport accepted: the byte is on the pins.
IsLatched(e) == IsOutputWrite(e) /\ e.ok

Latched(b) == SelectSeq(b, IsLatched)

\* C18 (as claimed): whenever no operation is in progress, after a success or
\* a transport error alike, the Enable shadow output.e is FALSE and the last
\* byte the latest call got into the output register has Enable (bit 2) clear.
C18_EnableLowAtRest ==
    /\ output.e = FALSE
    /\ Latched(bus) # <<>> => Bit(Latched(bus)[Len(Latched(bus))].val, 2) = 0

\* C19: with no bus failure, the text-stream sink called with string s puts
\* on the bus exactly the output-register writes, in order, that the fallible
\* write_str(s) makes from the same driver state: four frames per byte, RS
\* set; and the sink awaits no delay at all, where write_str awaits four per
\* byte.
C19_SinkSameFrames ==
    [][(call'.op = "fmt_write_str" /\ ret' = "Ok") =>
          /\ WritesOf(bus') = WritesOf(write_str(Enter(-1), call'.a).bus)
          /\ Len(WritesOf(bus')) = 4 * Len(call'.a)
          /\ \A i \in 1..Len(bus') : IsOutputWrite(bus'[i]) /\ Bit(bus'[i].val, 0) = 1
          /\ Len(write_str(Enter(-1), call'.a).bus) = 8 * Len(call'.a)]_vars

C19_Witness ==
    /\ call.op = "fmt_write_str" /\ ret = "Ok" /\ Len(call.a) = MaxStrLen
    /\ call.a[1] # call.a[MaxStrLen]
    /\ Len(bus) = 4 * MaxStrLen
    /\ output.led /\ hist = "other"

\* The pin states a rendered one is compared with: every combination of the
\* four flags with every high nibble and every low nibble.
OtherPins ==
    [rs : BOOLEAN, rw : BOOLEAN, e : BOOLEAN, led : BOOLEAN,
     data : {17 * n : n \in 0..15}]

\* The five logical signals of pin state o when nibble nib is selected.
Signals(o, nib) == <<o.rs, o.rw, o.e, o.led, nib>>

Flag(f) == IF f THEN 1 ELSE 0

\* C20: for get_high_data and for get_low_data, two pin states that differ in
\* RS, R/W, Enable, Backlight or the selected nibble render to different
\* bytes; the signals sit on bits 0, 1, 2, 3 and 7..4; and the nibbles of the
\* high frame and of the low frame together give back the staged data byte.
C20_BitMapInjective ==
    (call.op = "get_low_data") =>
        /\ \A o \in OtherPins :
              /\ Signals(o, o.data \div 16) # Signals(output, output.data \div 16)
                    => get_high_data(o) # bus[1].val
              /\ Signals(o, o.data % 16) # Signals(output, output.data % 16)
                    => get_low_data(o) # bus[2].val
        /\ \A i \in 1..2 :
              /\ Bit(bus[i].val, 0) = Flag(output.rs)
              /\ Bit(bus[i].val, 1) = Flag(output.rw)
              /\ Bit(bus[i].val, 2) = Flag(output.e)
              /\ Bit(bus[i].val, 3) = Flag(output.led)
        /\ bus[1].val \div 16 = output.data \div 16
        /\ bus[2].val \div 16 = output.data % 16
        /\ 16 * (bus[1].val \div 16) + (bus[2].val \div 16) = output.data

C20_Witness ==
    /\ call.op = "get_low_data"
    /\ output = [rs |-> TRUE, rw |-> TRUE, e |-> FALSE, led |-> TRUE, data |-> 165]
    /\ bus[1].val = 171 /\ bus[2].val = 91

====
